---- MODULE Spec2Model ----
(***************************************************************************)
(* Model of scripts/prepare-member-import.py: the merge of members.xlsx    *)
(* and members-accounts.xlsx into tmp/members-import.json.                 *)
(*                                                                         *)
(* Python strings are sequences of one-character strings, None is the      *)
(* value None, and a spreadsheet cell is a record tagged with its kind.    *)
(***************************************************************************)
EXTENDS Integers, Sequences, FiniteSets, TLC

VARIABLES
    pc,            \* position of main()
    members_file,  \* tmp/members.xlsx on disk: Missing or a table
    accounts_file, \* tmp/members-accounts.xlsx on disk: Missing or a table
    df_members,    \* the member table held by main()
    df_accounts,   \* the account table held by main()
    account_map,   \* the dict from email_norm to account number text
    idx,           \* position of the running for loop
    records,       \* the list of records built so far
    output,        \* the output document
    out_file,      \* tmp/members-import.json on disk
    opens,         \* how many times the output file has been opened for writing
    error,         \* the exception that ended the run, or "none"
    fn,            \* the normalizer under call (normalizer specification)
    arg,           \* its argument cell
    ret            \* its outcome

vars == <<pc, members_file, accounts_file, df_members, df_accounts, account_map,
          idx, records, output, out_file, opens, error, fn, arg, ret>>

pipeVars == <<pc, members_file, accounts_file, df_members, df_accounts, account_map,
              idx, records, output, out_file, opens, error>>

fnVars == <<fn, arg, ret>>

----------------------------------------------------------------------------
(* Bounds *)

MaxSkillLen == 4
MaxGenLen == 3
MaxRows == 2
MaxAccounts == 2
MaxEmailRows == 3
MaxClock == 2

----------------------------------------------------------------------------
(* Python values *)

None == [t |-> "None", v |-> <<>>]
Str(s) == [t |-> "str", v |-> s]
List(l) == [t |-> "list", v |-> l]

\* outcome of a call: a returned value or a raised exception
Return(v) == [ok |-> TRUE, val |-> v, exc |-> "none"]
Raise(e) == [ok |-> FALSE, val |-> None, exc |-> e]

(* Spreadsheet cells as pandas hands them to the script *)
Blank == [kind |-> "blank", s |-> <<>>, n |-> 0, fr |-> 0]
Text(s) == [kind |-> "text", s |-> s, n |-> 0, fr |-> 0]
IntCell(n) == [kind |-> "int", s |-> <<>>, n |-> n, fr |-> 0]
\* the float n.fr, n >= 0 and fr one decimal digit
FloatCell(n, f) == [kind |-> "float", s |-> <<>>, n |-> n, fr |-> f]
\* a datetime, n = year * 10000 + month * 100 + day
DateCell(n) == [kind |-> "date", s |-> <<>>, n |-> n, fr |-> 0]

----------------------------------------------------------------------------
(* str methods *)

Whitespace == {" ", "\t"}

LowerChar(c) ==
    CASE c = "A" -> "a" [] c = "B" -> "b" [] c = "C" -> "c" [] c = "D" -> "d"
      [] c = "E" -> "e" [] c = "F" -> "f" [] c = "G" -> "g" [] c = "I" -> "i"
      [] c = "J" -> "j" [] c = "L" -> "l" [] c = "M" -> "m" [] c = "N" -> "n"
      [] c = "O" -> "o" [] c = "P" -> "p" [] c = "Q" -> "q" [] c = "R" -> "r"
      [] c = "S" -> "s" [] c = "T" -> "t" [] c = "U" -> "u" [] c = "X" -> "x"
      [] OTHER -> c

Lower(s) == [i \in 1..Len(s) |-> LowerChar(s[i])]

RECURSIVE LStrip(_)
LStrip(s) == IF s # <<>> /\ Head(s) \in Whitespace THEN LStrip(Tail(s)) ELSE s

RECURSIVE RStrip(_)
RStrip(s) ==
    IF s # <<>> /\ s[Len(s)] \in Whitespace THEN RStrip(SubSeq(s, 1, Len(s) - 1)) ELSE s

Strip(s) == RStrip(LStrip(s))

\* sub in s
Contains(s, sub) ==
    \E i \in 0..(Len(s) - Len(sub)) : SubSeq(s, i + 1, i + Len(sub)) = sub

\* s.replace(a, b) for single characters
Replace(s, a, b) == [i \in 1..Len(s) |-> IF s[i] = a THEN b ELSE s[i]]

\* s.split(sep) for a single-character separator: never an empty list
RECURSIVE Split(_, _)
Split(s, sep) ==
    IF \A i \in 1..Len(s) : s[i] # sep
    THEN <<s>>
    ELSE LET p == CHOOSE i \in 1..Len(s) : s[i] = sep /\ \A j \in 1..(i - 1) : s[j] # sep
         IN  <<SubSeq(s, 1, p - 1)>> \o Split(SubSeq(s, p + 1, Len(s)), sep)

\* sep.join(parts)
RECURSIVE Join(_, _)
Join(parts, sep) ==
    IF parts = <<>> THEN <<>>
    ELSE IF Len(parts) = 1 THEN parts[1]
    ELSE parts[1] \o sep \o Join(Tail(parts), sep)

\* filter(None, [...]) over values that are None or non-empty str: the str contents
RECURSIVE FilterNone(_)
FilterNone(l) ==
    IF l = <<>> THEN <<>>
    ELSE IF Head(l).t = "None" \/ Head(l).v = <<>> THEN FilterNone(Tail(l))
    ELSE <<Head(l).v>> \o FilterNone(Tail(l))

DigitChar(d) ==
    CASE d = 0 -> "0" [] d = 1 -> "1" [] d = 2 -> "2" [] d = 3 -> "3" [] d = 4 -> "4"
      [] d = 5 -> "5" [] d = 6 -> "6" [] d = 7 -> "7" [] d = 8 -> "8" [] d = 9 -> "9"

Digits == {"0", "1", "2", "3", "4", "5", "6", "7", "8", "9"}

DigitVal(c) == CHOOSE d \in 0..9 : DigitChar(d) = c

RECURSIVE NatToStr(_)
NatToStr(n) == IF n < 10 THEN <<DigitChar(n)>> ELSE NatToStr(n \div 10) \o <<DigitChar(n % 10)>>

\* str(n) of an int
IntToStr(n) == IF n < 0 THEN <<"-">> \o NatToStr(0 - n) ELSE NatToStr(n)

RECURSIVE DigitsToNat(_)
DigitsToNat(s) ==
    IF s = <<>> THEN 0 ELSE DigitsToNat(SubSeq(s, 1, Len(s) - 1)) * 10 + DigitVal(s[Len(s)])

AllDigits(s) == \A i \in 1..Len(s) : s[i] \in Digits

\* n as at least w digits
RECURSIVE ZeroPad(_, _)
ZeroPad(s, w) == IF Len(s) >= w THEN s ELSE ZeroPad(<<"0">> \o s, w)

----------------------------------------------------------------------------
(* Conversions of cell values *)

\* datetime.isoformat() / Timestamp.isoformat() of a date cell, with separator sep
DateToStr(n, sep) ==
    ZeroPad(NatToStr(n \div 10000), 4) \o <<"-">> \o ZeroPad(NatToStr((n \div 100) % 100), 2)
        \o <<"-">> \o ZeroPad(NatToStr(n % 100), 2) \o sep
        \o <<"0", "0", ":", "0", "0", ":", "0", "0">>

\* str(raw)
StrOf(c) ==
    CASE c.kind = "text" -> c.s
      [] c.kind = "int" -> IntToStr(c.n)
      [] c.kind = "float" -> NatToStr(c.n) \o <<".">> \o <<DigitChar(c.fr)>>
      [] c.kind = "date" -> DateToStr(c.n, <<" ">>)
      [] OTHER -> <<"n", "a", "n">>

\* pd.isna(raw) / pd.notna(raw); a column the table lacks reads as None
IsNa(c) == c.kind = "blank"
NotNa(c) == ~IsNa(c)

Inf == [kind |-> "inf", neg |-> FALSE, ip |-> 0]
NaN == [kind |-> "nan", neg |-> FALSE, ip |-> 0]
Fin(neg, ip) == [kind |-> "fin", neg |-> neg, ip |-> ip]
NotAFloat == [kind |-> "error", neg |-> FALSE, ip |-> 0]

\* the unsigned part of a float literal without exponent: 12, 12., 12.5, .5
ParseUnsigned(b) ==
    IF b = <<>> THEN NotAFloat
    ELSE IF Lower(b) \in {<<"i", "n", "f">>, <<"i", "n", "f", "i", "n", "i", "t", "y">>} THEN Inf
    ELSE IF Lower(b) = <<"n", "a", "n">> THEN NaN
    ELSE IF AllDigits(b) THEN Fin(FALSE, DigitsToNat(b))
    ELSE IF \E p \in 1..Len(b) :
                /\ b[p] = "."
                /\ AllDigits(SubSeq(b, 1, p - 1)) /\ AllDigits(SubSeq(b, p + 1, Len(b)))
                /\ Len(b) > 1
         THEN LET p == CHOOSE q \in 1..Len(b) : b[q] = "."
              IN  Fin(FALSE, DigitsToNat(SubSeq(b, 1, p - 1)))
    ELSE NotAFloat

\* float(s) of a str without exponent or digit separators
ParseFloat(s) ==
    LET b == Strip(s) IN
    IF b # <<>> /\ Head(b) \in {"-", "+"}
    THEN LET u == ParseUnsigned(Tail(b))
         IN  IF u.kind = "error" THEN u ELSE [u EXCEPT !.neg = (Head(b) = "-")]
    ELSE ParseUnsigned(b)

\* float(raw): a float, or the exception raised
ToFloat(c) ==
    CASE c.kind = "text" ->
            LET f == ParseFloat(c.s)
            IN  IF f.kind = "error" THEN Raise("ValueError") ELSE Return(f)
      [] c.kind \in {"int", "float"} -> Return(Fin(c.n < 0, IF c.n < 0 THEN 0 - c.n ELSE c.n))
      [] OTHER -> Raise("TypeError")

\* int(f) of a float: truncation towards zero
FloatToInt(f) ==
    CASE f.kind = "inf" -> Raise("OverflowError")
      [] f.kind = "nan" -> Raise("ValueError")
      [] OTHER -> Return(IF f.neg THEN 0 - f.ip ELSE f.ip)

\* int(nc) of an account number cell
ToInt(c) ==
    CASE c.kind = "int" -> Return(c.n)
      [] c.kind = "float" -> Return(c.n)
      [] c.kind = "text" ->
            LET b == Strip(c.s)
                u == IF b # <<>> /\ Head(b) \in {"-", "+"} THEN Tail(b) ELSE b
            IN  IF u # <<>> /\ AllDigits(u)
                THEN Return(IF Head(b) = "-" THEN 0 - DigitsToNat(u) ELSE DigitsToNat(u))
                ELSE Raise("ValueError")
      [] OTHER -> Raise("TypeError")

----------------------------------------------------------------------------
(* The field normalizers *)

\* the tokens of the comprehension, in order
RECURSIVE StripNonEmpty(_)
StripNonEmpty(l) ==
    IF l = <<>> THEN <<>>
    ELSE IF Strip(Head(l)) # <<>> THEN <<Strip(Head(l))>> \o StripNonEmpty(Tail(l))
    ELSE StripNonEmpty(Tail(l))

\* parse_skills splitting on commas only
parse_skills_commas_only(raw) ==
    IF IsNa(raw) THEN Return(List(<<>>))
    ELSE Return(List(StripNonEmpty(Split(StrOf(raw), ","))))

parse_skills(raw) ==
    IF IsNa(raw) THEN Return(List(<<>>))
    ELSE Return(List(StripNonEmpty(Split(Replace(StrOf(raw), ";", ","), ","))))

normalize_academic_level(raw) ==
    IF IsNa(raw) THEN Return(None)
    ELSE LET val == Strip(Lower(StrOf(raw))) IN
         IF Contains(val, <<"l", "i", "c", "e", "n", "c", "i", "a", "t", "u", "r", "a">>)
         THEN Return(Str(<<"l", "i", "c", "e", "n", "c", "i", "a", "t", "u", "r", "a">>))
         ELSE IF \/ Contains(val, <<"p", "o", "s", "g", "r", "a", "d", "o">>)
                 \/ Contains(val, <<"m", "a", "e", "s", "t", "r">>)
                 \/ Contains(val, <<"d", "o", "c", "t", "o", "r">>)
         THEN Return(Str(<<"p", "o", "s", "g", "r", "a", "d", "o">>))
         ELSE IF \/ Contains(val, <<"c", "u", "r", "s", "o">>)
                 \/ Contains(val, <<"a", "c", "t", "u", "a", "l", "i", "z", "a", "c", "i", "ó", "n">>)
         THEN Return(Str(<<"c", "u", "r", "s", "o">>))
         ELSE Return(None)

safe_str(val) ==
    IF IsNa(val) THEN Return(None)
    ELSE IF Strip(StrOf(val)) # <<>> THEN Return(Str(Strip(StrOf(val))))
    ELSE Return(None)

normalize_generation(raw) ==
    IF IsNa(raw) THEN Return(None)
    ELSE LET f == ToFloat(raw) IN
         IF ~f.ok THEN Return(Str(Strip(StrOf(raw))))
         ELSE LET i == FloatToInt(f.val) IN
              IF i.ok THEN Return(Str(IntToStr(i.val)))
              ELSE IF i.exc \in {"ValueError", "TypeError"} THEN Return(Str(Strip(StrOf(raw))))
              ELSE Raise(i.exc)

\* the classes pd.Timestamp(val) raises, all subclasses of Exception
TimestampErrors == {"ValueError", "TypeError", "OutOfBoundsDatetime"}

\* pd.Timestamp(val).isoformat(): the library's date parser is outside the
\* script, so for a cell that is no date either outcome is possible
TimestampIso(val) ==
    {Return(Str(DateToStr(n, <<"T">>))) : n \in {19700101, 20210304}}
        \cup {Raise(e) : e \in TimestampErrors}

\* to_iso handing a datetime on as it is, without isoformat()
to_iso_raw(val) ==
    IF IsNa(val) THEN {Return(None)}
    ELSE IF val.kind = "date" THEN {Return([t |-> "datetime", v |-> DateToStr(val.n, <<"T">>)])}
    ELSE {IF o.ok THEN o ELSE Return(None) : o \in TimestampIso(val)}

\* the outcomes of to_iso(val)
to_iso(val) ==
    IF IsNa(val) THEN {Return(None)}
    ELSE IF val.kind = "date" THEN {Return(Str(DateToStr(val.n, <<"T">>)))}
    ELSE {IF o.ok THEN o ELSE Return(None) : o \in TimestampIso(val)}

----------------------------------------------------------------------------
(* Tables *)

\* a spreadsheet on disk or a DataFrame: its header and its rows, each row a
\* function from the header to cells
Table(cols, rows) == [exists |-> TRUE, cols |-> cols, rows |-> rows]
Missing == [exists |-> FALSE, cols |-> {}, rows |-> <<>>]

COL_EMAIL == "Dirección de correo electrónico"
EMAIL_NORM == "email_norm"

\* row.get(col): None, which pd.isna takes as missing, for a column the table lacks
Get(row, col) == IF col \in DOMAIN row THEN row[col] ELSE Blank

EXCLUDED_EMAILS ==
    { <<"p", "r", "u", "e", "b", "a", "@", "s", "e", "c", "i", "d", ".", "m", "x">>,
      <<"p", "r", "u", "e", "b", "a", "_", "2", "@", "s", "e", "c", "i", "d", ".", "m", "x">> }

\* EmailNorm without .str.lower()
EmailNormNoLower(cell) == IF cell.kind = "text" THEN Text(Strip(cell.s)) ELSE Blank

\* one element of Series.str.strip().str.lower(): NaN for a cell that is no str
EmailNorm(cell) == IF cell.kind = "text" THEN Text(Lower(Strip(cell.s))) ELSE Blank

\* the .str accessor exists on an object column only: an empty table, or a
\* column holding at least one str
HasStrAccessor(t, col) == t.rows = <<>> \/ \E i \in 1..Len(t.rows) : t.rows[i][col].kind = "text"

\* df[EMAIL_NORM] = df[COL_EMAIL].str.strip().str.lower()
AddEmailNorm(t) ==
    IF COL_EMAIL \notin t.cols THEN Raise("KeyError")
    ELSE IF ~HasStrAccessor(t, COL_EMAIL) THEN Raise("AttributeError")
    ELSE Return(Table(t.cols \cup {EMAIL_NORM},
                      [i \in 1..Len(t.rows) |->
                          [k \in t.cols \cup {EMAIL_NORM} |->
                              IF k = EMAIL_NORM THEN EmailNorm(t.rows[i][COL_EMAIL])
                              ELSE t.rows[i][k]]]))

\* Series.isin(EXCLUDED_EMAILS) for one element
IsExcluded(cell) == cell.kind = "text" /\ cell.s \in EXCLUDED_EMAILS

\* DropExcluded with the mask not negated: the excluded rows are the ones kept
RECURSIVE KeepExcluded(_)
KeepExcluded(rows) ==
    IF rows = <<>> THEN <<>>
    ELSE IF IsExcluded(Head(rows)[EMAIL_NORM]) THEN <<Head(rows)>> \o KeepExcluded(Tail(rows))
    ELSE KeepExcluded(Tail(rows))

\* the rows a boolean mask of not-excluded rows selects, in order
RECURSIVE DropExcluded(_)
DropExcluded(rows) ==
    IF rows = <<>> THEN <<>>
    ELSE IF ~IsExcluded(Head(rows)[EMAIL_NORM]) THEN <<Head(rows)>> \o DropExcluded(Tail(rows))
    ELSE DropExcluded(Tail(rows))

\* df_members[~df_members[EMAIL_NORM].isin(EXCLUDED_EMAILS)]
ExcludeRows(t) == Table(t.cols, DropExcluded(t.rows))

\* account_map[email] = value
DictSet(m, key, value) ==
    [k \in DOMAIN m \cup {key} |-> IF k = key THEN value ELSE m[k]]

\* account_map.get(key)
DictGet(m, key) == IF key \in DOMAIN m THEN m[key] ELSE None

\* AccountStep keeping the first account number seen for an email
AccountStepFirstWins(m, row) ==
    LET email == row[EMAIL_NORM]
        nc == Get(row, "Numero de cuenta")
    IN  IF NotNa(nc)
        THEN LET i == ToInt(nc)
             IN  IF ~i.ok THEN Raise(i.exc)
                 ELSE IF email \in DOMAIN m THEN Return(m)
                 ELSE Return(DictSet(m, email, Str(IntToStr(i.val))))
        ELSE Return(m)

\* one iteration of the account loop: the new map, or the exception of int(nc)
AccountStep(m, row) ==
    LET email == row[EMAIL_NORM]
        nc == Get(row, "Numero de cuenta")
    IN  IF NotNa(nc)
        THEN LET i == ToInt(nc)
             IN  IF i.ok THEN Return(DictSet(m, email, Str(IntToStr(i.val)))) ELSE Raise(i.exc)
        ELSE Return(m)

----------------------------------------------------------------------------
(* The record builder *)

\* x or "" for x a str or None
OrEmpty(x) == IF x.t = "None" THEN <<>> ELSE x.v

\* Classify matching the registration type as written, without lower()
ClassifyCaseSensitive(row) ==
    LET is_member == NotNa(Get(row, "Miembro"))
        tipo == OrEmpty(safe_str(Get(row, "Tipo de registro")).val)
    IN  IF \/ is_member
           \/ Contains(tipo, <<"m", "i", "e", "m", "b", "r", "o">>)
           \/ Contains(tipo, <<"e", "g", "r", "e", "s", "a", "d", "o">>)
        THEN [role |-> "member", lifecycle_status |-> "active",
              registration_type |-> "member", verification_status |-> "approved"]
        ELSE [role |-> "collaborator", lifecycle_status |-> "collaborator",
              registration_type |-> "collaborator", verification_status |-> "none"]

\* the role/status derivation
Classify(row) ==
    LET is_member == NotNa(Get(row, "Miembro"))
        tipo == OrEmpty(safe_str(Get(row, "Tipo de registro")).val)
    IN  IF \/ is_member
           \/ Contains(Lower(tipo), <<"m", "i", "e", "m", "b", "r", "o">>)
           \/ Contains(Lower(tipo), <<"e", "g", "r", "e", "s", "a", "d", "o">>)
        THEN [role |-> "member", lifecycle_status |-> "active",
              registration_type |-> "member", verification_status |-> "approved"]
        ELSE [role |-> "collaborator", lifecycle_status |-> "collaborator",
              registration_type |-> "collaborator", verification_status |-> "none"]

\* " ".join(filter(None, parts))
JoinNames(parts) == Join(FilterNone(parts), <<" ">>)

\* DisplayName falling back to the part before the last "@"
DisplayNameLastAt(display_name, email) ==
    IF display_name # <<>> THEN display_name
    ELSE LET parts == Split(email, "@")
         IN  Join(SubSeq(parts, 1, IF Len(parts) > 1 THEN Len(parts) - 1 ELSE 1), <<"@">>)

\* display_name or email.split("@")[0]
DisplayName(display_name, email) ==
    IF display_name # <<>> THEN display_name ELSE Split(email, "@")[1]

PriorityKeys ==
    {"bolsaTrabajo", "hackatones", "cursosEspecializados", "seminarios", "asesorias",
     "mentoria", "newsletter"}

PriorityCol(k) ==
    CASE k = "bolsaTrabajo" -> "Selecciona el nivel de prioridad que le asignas a cada una de las siguientes iniciativas: [Bolsa Trabajo]"
      [] k = "hackatones" -> "Selecciona el nivel de prioridad que le asignas a cada una de las siguientes iniciativas: [Hackatones]"
      [] k = "cursosEspecializados" -> "Selecciona el nivel de prioridad que le asignas a cada una de las siguientes iniciativas: [Cursos especializados]"
      [] k = "seminarios" -> "Selecciona el nivel de prioridad que le asignas a cada una de las siguientes iniciativas: [Seminarios]"
      [] k = "asesorias" -> "Selecciona el nivel de prioridad que le asignas a cada una de las siguientes iniciativas: [Asesorías]"
      [] k = "mentoria" -> "Selecciona el nivel de prioridad que le asignas a cada una de las siguientes iniciativas: [Mentoría]"
      [] k = "newsletter" -> "Selecciona el nivel de prioridad que le asignas a cada una de las siguientes iniciativas: [Newsletter]"

\* Priorities without the comprehension that drops the None values
PrioritiesUnpruned(row) == [k \in PriorityKeys |-> safe_str(Get(row, PriorityCol(k))).val]

\* the priorities dict literal, then the comprehension that drops the None values
Priorities(row) ==
    LET full == [k \in PriorityKeys |-> safe_str(Get(row, PriorityCol(k))).val]
    IN  [k \in {q \in PriorityKeys : full[q] # None} |-> full[k]]

\* the dict literal of one row, given the outcomes of the two to_iso calls
RecordOf(row, email, account, generation, birthDate, registeredAt) ==
    LET first_name == safe_str(row["Nombre(s)"]).val
        last_paterno == safe_str(row["Apellido Paterno"]).val
        last_materno == safe_str(row["Apellido Materno"]).val
        last_name == JoinNames(<<last_paterno, last_materno>>)
        display_name == JoinNames(<<first_name, last_paterno>>)
        cls == Classify(row)
    IN  [ email |-> Str(email),
          displayName |-> Str(DisplayName(display_name, email)),
          firstName |-> first_name,
          lastName |-> Str(last_name),
          role |-> cls.role,
          registrationType |-> cls.registration_type,
          verificationStatus |-> cls.verification_status,
          lifecycleStatus |-> cls.lifecycle_status,
          numeroCuenta |-> DictGet(account, Text(Lower(email))),
          academicLevel |-> normalize_academic_level(Get(row,
              "Indica el nivel académico en el que cursaste estudios de ciencia de datos en la UNAM.")).val,
          campus |-> safe_str(Get(row, "Indica tu sede de estudios")).val,
          generation |-> generation,
          gender |-> safe_str(Get(row, "Indica el género con el que te identificas.")).val,
          company |-> safe_str(Get(row,
              "Última empresa o institución en la que laboras / laboraste")).val,
          position |-> safe_str(Get(row, "Puesto de trabajo")).val,
          professionalStatus |-> safe_str(Get(row, "Situación profesional")).val,
          maxDegree |-> safe_str(Get(row, "Máximo grado de estudios")).val,
          maxDegreeInstitution |-> safe_str(Get(row,
              "Institución en la que cursaste el máximo grado de estudios")).val,
          maxDegreeProgram |-> safe_str(Get(row,
              "Nombre del programa del máximo grado de estudios")).val,
          skills |-> parse_skills(Get(row, "Intereses / área de expertise")).val,
          experienceLevel |-> safe_str(Get(row,
              "Indica el nivel de experiencia que tienes en el área de ciencia de datos")).val,
          currentlyStudying |-> safe_str(Get(row, "¿Estudias actualmente?")).val,
          linkedin |-> safe_str(Get(row, "LinkedIn")).val,
          instagram |-> safe_str(Get(row, "Instagram")).val,
          twitter |-> safe_str(Get(row, "Twitter")).val,
          facebook |-> safe_str(Get(row, "Facebook")).val,
          phone |-> safe_str(Get(row, "Teléfono")).val,
          cvUrl |-> safe_str(Get(row, "Currículum vitae")).val,
          cvHighlights |-> safe_str(Get(row, "Resumé (CV highlights)")).val,
          birthDate |-> birthDate,
          registeredAt |-> registeredAt,
          whatsappConsent |-> safe_str(Get(row,
              "¿Autorizas que añadamos tu número de teléfono a la comunidad de WhatsApp de egresados de la SECiD?")).val,
          objectives |-> safe_str(Get(row,
              "¿Cuáles son los principales objetivos de tu acercamiento a SECiD?")).val,
          expectations |-> safe_str(Get(row,
              "Describe a mayor detalle cuáles son tus expectativas al colaborar con SECiD.")).val,
          priorities |-> Priorities(row),
          comments |-> safe_str(Get(row,
              "Comparte tus recomendaciones adicionales, comentarios, y sugerencias sobre cómo podríamos colaborar y mejorar.")).val ]

\* one iteration of the member loop: the outcomes are the record appended, or
\* the exception a statement of the body raises, in the order of the body
BuildRecord(row, account) ==
    IF row[COL_EMAIL].kind # "text" THEN {Raise("AttributeError")}
    ELSE IF ~({"Nombre(s)", "Apellido Paterno", "Apellido Materno"} \subseteq DOMAIN row)
    THEN {Raise("KeyError")}
    ELSE LET email == Strip(row[COL_EMAIL].s)
             gen == normalize_generation(Get(row, "Elige la generación a la que perteneces."))
         IN  IF ~gen.ok THEN {Raise(gen.exc)}
             ELSE { Return(RecordOf(row, email, account, gen.val, b.val, r.val)) :
                        b \in to_iso(Get(row, "Fecha de Nacimiento")),
                        r \in to_iso(Get(row, "Marca temporal")) }

----------------------------------------------------------------------------
(* The writer *)

\* CountRole counting the distinct records of the role
CountRoleDistinct(recs, role) == Cardinality({r \in {recs[i] : i \in 1..Len(recs)} : r.role = role})

\* sum(1 for r in records if r["role"] == role)
CountRole(recs, role) == Cardinality({i \in 1..Len(recs) : recs[i].role = role})

\* the output document
Output(recs, now) ==
    [ generatedAt |-> now,
      totalMembers |-> Len(recs),
      memberCount |-> CountRole(recs, "member"),
      collaboratorCount |-> CountRole(recs, "collaborator"),
      excludedEmails |-> EXCLUDED_EMAILS,
      members |-> recs ]

NoOutput == Output(<<>>, 0)

\* the values of a record that are not literals of the script
RecordValues(r) ==
    { r.email, r.displayName, r.firstName, r.lastName, r.numeroCuenta, r.academicLevel,
      r.campus, r.generation, r.gender, r.company, r.position, r.professionalStatus,
      r.maxDegree, r.maxDegreeInstitution, r.maxDegreeProgram, r.skills,
      r.experienceLevel, r.currentlyStudying, r.linkedin, r.instagram, r.twitter,
      r.facebook, r.phone, r.cvUrl, r.cvHighlights, r.birthDate, r.registeredAt,
      r.whatsappConsent, r.objectives, r.expectations, r.comments }
        \cup {r.priorities[k] : k \in DOMAIN r.priorities}

\* json.dump encodes str, None, list and dict and raises TypeError on any other
\* value, after the chunks before it have reached the file
JsonSerializable(doc) ==
    \A i \in 1..Len(doc.members) :
        \A v \in RecordValues(doc.members[i]) : v.t \in {"str", "None", "list"}

\* tmp/members-import.json: untouched by this run, opened and truncated,
\* holding part of a document, or holding a complete document
Untouched == [state |-> "untouched", doc |-> NoOutput]
Opened == [state |-> "open", doc |-> NoOutput]
Partial == [state |-> "partial", doc |-> NoOutput]
Complete(doc) == [state |-> "complete", doc |-> doc]

----------------------------------------------------------------------------
(* main() *)

NotCalled == [ok |-> FALSE, val |-> None, exc |-> "not called"]

\* an uncaught exception ends the run
Fail(e) ==
    /\ pc' = "failed"
    /\ error' = e

ReadMembers ==
    /\ pc = "read_members"
    /\ IF members_file.exists
       THEN /\ df_members' = members_file
            /\ pc' = "read_accounts"
            /\ UNCHANGED error
       ELSE /\ Fail("FileNotFoundError")
            /\ UNCHANGED df_members
    /\ UNCHANGED <<members_file, accounts_file, df_accounts, account_map, idx, records,
                   output, out_file, opens, fn, arg, ret>>

ReadAccounts ==
    /\ pc = "read_accounts"
    /\ IF accounts_file.exists
       THEN /\ df_accounts' = accounts_file
            /\ pc' = "norm_members"
            /\ UNCHANGED error
       ELSE /\ Fail("FileNotFoundError")
            /\ UNCHANGED df_accounts
    /\ UNCHANGED <<members_file, accounts_file, df_members, account_map, idx, records,
                   output, out_file, opens, fn, arg, ret>>

NormMembers ==
    /\ pc = "norm_members"
    /\ LET t == AddEmailNorm(df_members) IN
       IF t.ok
       THEN /\ df_members' = t.val
            /\ pc' = "norm_accounts"
            /\ UNCHANGED error
       ELSE /\ Fail(t.exc)
            /\ UNCHANGED df_members
    /\ UNCHANGED <<members_file, accounts_file, df_accounts, account_map, idx, records,
                   output, out_file, opens, fn, arg, ret>>

NormAccounts ==
    /\ pc = "norm_accounts"
    /\ LET t == AddEmailNorm(df_accounts) IN
       IF t.ok
       THEN /\ df_accounts' = t.val
            /\ pc' = "exclude"
            /\ UNCHANGED error
       ELSE /\ Fail(t.exc)
            /\ UNCHANGED df_accounts
    /\ UNCHANGED <<members_file, accounts_file, df_members, account_map, idx, records,
                   output, out_file, opens, fn, arg, ret>>

Exclude ==
    /\ pc = "exclude"
    /\ df_members' = ExcludeRows(df_members)
    /\ account_map' = <<>>
    /\ idx' = 1
    /\ pc' = "join"
    /\ UNCHANGED <<members_file, accounts_file, df_accounts, records, output, out_file,
                   opens, error, fn, arg, ret>>

\* one iteration of for _, row in df_accounts.iterrows(), or the end of the loop
JoinAccount ==
    /\ pc = "join"
    /\ IF idx <= Len(df_accounts.rows)
       THEN LET m == AccountStep(account_map, df_accounts.rows[idx]) IN
            IF m.ok
            THEN /\ account_map' = m.val
                 /\ idx' = idx + 1
                 /\ UNCHANGED <<pc, error, records>>
            ELSE /\ Fail(m.exc)
                 /\ UNCHANGED <<account_map, idx, records>>
       ELSE /\ records' = <<>>
            /\ idx' = 1
            /\ pc' = "build"
            /\ UNCHANGED <<account_map, error>>
    /\ UNCHANGED <<members_file, accounts_file, df_members, df_accounts, output, out_file,
                   opens, fn, arg, ret>>

\* one iteration of for _, row in df_members.iterrows(), or the end of the loop
BuildMember ==
    /\ pc = "build"
    /\ IF idx <= Len(df_members.rows)
       THEN \E o \in BuildRecord(df_members.rows[idx], account_map) :
                IF o.ok
                THEN /\ records' = Append(records, o.val)
                     /\ idx' = idx + 1
                     /\ UNCHANGED <<pc, error>>
                ELSE /\ Fail(o.exc)
                     /\ UNCHANGED <<records, idx>>
       ELSE /\ pc' = "aggregate"
            /\ UNCHANGED <<records, idx, error>>
    /\ UNCHANGED <<members_file, accounts_file, df_members, df_accounts, account_map, output,
                   out_file, opens, fn, arg, ret>>

Aggregate ==
    /\ pc = "aggregate"
    /\ \E now \in 1..MaxClock : output' = Output(records, now)
    /\ pc' = "open"
    /\ UNCHANGED <<members_file, accounts_file, df_members, df_accounts, account_map, idx,
                   records, out_file, opens, error, fn, arg, ret>>

\* open("tmp/members-import.json", "w") truncates the file
OpenOutput ==
    /\ pc = "open"
    /\ out_file' = Opened
    /\ opens' = opens + 1
    /\ pc' = "dump"
    /\ UNCHANGED <<members_file, accounts_file, df_members, df_accounts, account_map, idx,
                   records, output, error, fn, arg, ret>>

\* json.dump and the end of the with block
Dump ==
    /\ pc = "dump"
    /\ IF JsonSerializable(output)
       THEN /\ out_file' = Complete(output)
            /\ pc' = "print"
            /\ UNCHANGED error
       ELSE /\ out_file' = Partial
            /\ Fail("TypeError")
    /\ UNCHANGED <<members_file, accounts_file, df_members, df_accounts, account_map, idx,
                   records, output, opens, fn, arg, ret>>

PrintSummary ==
    /\ pc = "print"
    /\ pc' = "done"
    /\ UNCHANGED <<members_file, accounts_file, df_members, df_accounts, account_map, idx,
                   records, output, out_file, opens, error, fn, arg, ret>>

Next ==
    \/ ReadMembers
    \/ ReadAccounts
    \/ NormMembers
    \/ NormAccounts
    \/ Exclude
    \/ JoinAccount
    \/ BuildMember
    \/ Aggregate
    \/ OpenOutput
    \/ Dump
    \/ PrintSummary

----------------------------------------------------------------------------
(* Input tables *)

\* the header of members.xlsx: every column main() reads
MemberCols ==
    { "Dirección de correo electrónico",
      "Nombre(s)",
      "Apellido Paterno",
      "Apellido Materno",
      "Miembro",
      "Tipo de registro",
      "Indica el nivel académico en el que cursaste estudios de ciencia de datos en la UNAM.",
      "Indica tu sede de estudios",
      "Elige la generación a la que perteneces.",
      "Indica el género con el que te identificas.",
      "Última empresa o institución en la que laboras / laboraste",
      "Puesto de trabajo",
      "Situación profesional",
      "Máximo grado de estudios",
      "Institución en la que cursaste el máximo grado de estudios",
      "Nombre del programa del máximo grado de estudios",
      "Intereses / área de expertise",
      "Indica el nivel de experiencia que tienes en el área de ciencia de datos",
      "¿Estudias actualmente?",
      "LinkedIn",
      "Instagram",
      "Twitter",
      "Facebook",
      "Teléfono",
      "Currículum vitae",
      "Resumé (CV highlights)",
      "Fecha de Nacimiento",
      "Marca temporal",
      "¿Autorizas que añadamos tu número de teléfono a la comunidad de WhatsApp de egresados de la SECiD?",
      "¿Cuáles son los principales objetivos de tu acercamiento a SECiD?",
      "Describe a mayor detalle cuáles son tus expectativas al colaborar con SECiD.",
      "Selecciona el nivel de prioridad que le asignas a cada una de las siguientes iniciativas: [Bolsa Trabajo]",
      "Selecciona el nivel de prioridad que le asignas a cada una de las siguientes iniciativas: [Hackatones]",
      "Selecciona el nivel de prioridad que le asignas a cada una de las siguientes iniciativas: [Cursos especializados]",
      "Selecciona el nivel de prioridad que le asignas a cada una de las siguientes iniciativas: [Seminarios]",
      "Selecciona el nivel de prioridad que le asignas a cada una de las siguientes iniciativas: [Asesorías]",
      "Selecciona el nivel de prioridad que le asignas a cada una de las siguientes iniciativas: [Mentoría]",
      "Selecciona el nivel de prioridad que le asignas a cada una de las siguientes iniciativas: [Newsletter]",
      "Comparte tus recomendaciones adicionales, comentarios, y sugerencias sobre cómo podríamos colaborar y mejorar." }

\* the header of members-accounts.xlsx
AccountCols == {COL_EMAIL, "Numero de cuenta"}

\* a row of members.xlsx that is blank except where over gives a cell
Row(over) == [k \in MemberCols |-> IF k \in DOMAIN over THEN over[k] ELSE Blank]

AccountRow(email, nc) == [k \in AccountCols |-> IF k = COL_EMAIL THEN email ELSE nc]

\* the sequences of at most n elements of S
SeqsUpTo(S, n) == UNION {[1..k -> S] : k \in 0..n}

\* the table t without column col
DropCol(t, col) ==
    Table(t.cols \ {col}, [i \in 1..Len(t.rows) |-> [k \in t.cols \ {col} |-> t.rows[i][k]]])

E_ax == <<"a", "@", "x">>
E_Ax == <<"A", "@", "x", " ">>
E_bx == <<" ", "b", "@", "X">>
E_jdoe == <<"j", "d", "o", "e", "@", "e", "x", "a", "m", "p", "l", "e", ".", "c", "o", "m">>
E_test1 == <<"p", "r", "u", "e", "b", "a", "@", "s", "e", "c", "i", "d", ".", "m", "x">>
E_test1u == <<" ", "P", "R", "U", "E", "B", "A", "@", "s", "e", "c", "i", "d", ".", "M", "X", " ">>
E_test2u == <<"P", "r", "u", "e", "b", "a", "_", "2", "@", "S", "E", "C", "I", "D", ".", "m", "x", "\t">>
E_near == <<"p", "r", "u", "e", "b", "a", "@", "s", "e", "c", "i", "d", ".", "m", "x", "x">>
E_Jx == <<" ", "J", "@", "x">>

\* rows that differ in the membership flag and the registration type
MiembroCells == {Blank, Text(<<"S", "i">>), Text(<<" ">>)}
TipoCells ==
    {Blank, Text(<<"M", "i", "e", "m", "b", "r", "o">>), Text(<<"s", "o", "y", " ", "E", "G", "R", "E", "S", "A", "D", "O">>), Text(<<"C", "o", "l", "a", "b", "o", "r", "a", "d", "o", "r">>), Text(<<" ", "e", "g", "r", "e", "s", "a", "d", "a">>)}
ClassifyRows ==
    {Row(COL_EMAIL :> Text(E_ax) @@ "Miembro" :> m @@ "Tipo de registro" :> t) :
        m \in MiembroCells, t \in TipoCells}

\* rows that differ in the email cell
EmailCells ==
    {Text(E_test1), Text(E_test1u), Text(E_test2u), Text(E_near), Text(E_jdoe), Text(E_Jx),
     Blank, IntCell(5)}
EmailRows == {Row(COL_EMAIL :> e) : e \in EmailCells}

\* rows that differ in the name cells and the shape of the email
NameRows ==
    {Row(COL_EMAIL :> Text(e) @@ "Nombre(s)" :> n @@ "Apellido Paterno" :> p
            @@ "Apellido Materno" :> m) :
        e \in {E_jdoe \o <<" ">>, <<"x", "@", "y", "@", "z">>, <<"n", "o", "b", "o", "d", "y">>, <<"@", "x">>},
        n \in {Blank, Text(<<" ">>), Text(<<" ", "A", "n", "a", " ">>), IntCell(5)},
        p \in {Blank, Text(<<"L", "i">>), Text(<<"\t">>)},
        m \in {Blank, Text(<<"P", "a", "z">>)}}

\* rows that differ in the seven initiative ratings
RatingCells == {Blank, Text(<<" ">>), Text(<<"A", "l", "t", "a">>)}
PriorityRows ==
    {Row([k \in {PriorityCol(q) : q \in PriorityKeys} |-> f[k]] @@ (COL_EMAIL :> Text(E_ax))) :
        f \in [{PriorityCol(q) : q \in PriorityKeys} -> RatingCells]}
        \cup {Row(COL_EMAIL :> Text(E_ax) @@ PriorityCol("mentoria") :> IntCell(3))}

\* rows that differ in the cells the other normalizers read
FieldRows ==
    {Row(COL_EMAIL :> Text(E_ax)
            @@ "Elige la generación a la que perteneces." :> g
            @@ "Intereses / área de expertise" :> s
            @@ "Fecha de Nacimiento" :> d
            @@ "Indica el nivel académico en el que cursaste estudios de ciencia de datos en la UNAM." :> a) :
        g \in {Blank, FloatCell(2021, 0), Text(<<"i", "n", "f">>), Text(<<"N", "/", "A">>), Text(<<"2", "0", "2", "1", ".", "7">>)},
        s \in {Blank, Text(<<"a", ";", " ", "b">>)},
        d \in {Blank, DateCell(19990102), Text(<<"x">>)},
        a \in {Blank, Text(<<"M", "a", "e", "s", "t", "r", "í", "a">>)}}

\* account rows: two spellings of one address, another address, a blank address
AccountRows ==
    {AccountRow(Text(e), n) :
        e \in {E_ax, E_Ax},
        n \in {Blank, FloatCell(12, 0), FloatCell(7, 5)}}
        \cup {AccountRow(Blank, IntCell(3)), AccountRow(Text(E_ax), Text(<<"x">>)),
              AccountRow(Text(E_bx), Text(<<" ", "4", "5">>))}

\* the member tables the account tables are joined to
JoinedMembers ==
    { <<Row(COL_EMAIL :> Text(E_Ax))>>,
      <<Row(COL_EMAIL :> Text(E_Ax)), Row(COL_EMAIL :> Text(<<"B", "@", "x">>))>> }

NoAccounts == Table(AccountCols, <<>>)

\* the pairs of input files the runs start from
Inputs ==
    {<<Table(MemberCols, r), NoAccounts>> : r \in SeqsUpTo(ClassifyRows, MaxRows)}
        \cup {<<Table(MemberCols, r), NoAccounts>> : r \in SeqsUpTo(EmailRows, MaxEmailRows)}
        \cup {<<Table(MemberCols, <<r>>), NoAccounts>> :
                r \in NameRows \cup PriorityRows \cup FieldRows}
        \cup {<<Table(MemberCols, m), Table(AccountCols, a)>> :
                m \in JoinedMembers,
                a \in SeqsUpTo(AccountRows, MaxAccounts)}
        \cup {<<Missing, NoAccounts>>, <<Table(MemberCols, <<>>), Missing>>}
        \cup {<<DropCol(Table(MemberCols, r), col), NoAccounts>> :
                r \in SeqsUpTo({Row(COL_EMAIL :> Text(E_ax) @@ "Miembro" :> Text(<<"S", "i">>))}, 1),
                col \in {COL_EMAIL, "Nombre(s)", "Apellido Paterno", "Apellido Materno",
                         "Miembro", "Tipo de registro", PriorityCol("seminarios")}}
        \cup {<<Table(MemberCols, <<Row(COL_EMAIL :> Text(E_Ax))>>),
                DropCol(Table(AccountCols, <<AccountRow(Text(E_ax), IntCell(3))>>), col)>> :
                col \in AccountCols}

Init ==
    /\ pc = "read_members"
    /\ \E in \in Inputs : members_file = in[1] /\ accounts_file = in[2]
    /\ df_members = Missing
    /\ df_accounts = Missing
    /\ account_map = <<>>
    /\ idx = 0
    /\ records = <<>>
    /\ output = NoOutput
    /\ out_file = Untouched
    /\ opens = 0
    /\ error = "none"
    /\ fn = "none"
    /\ arg = Blank
    /\ ret = NotCalled

Spec == Init /\ [][Next]_vars

----------------------------------------------------------------------------
(* The normalizers called on their own *)

StringsUpTo(A, n) == UNION {[1..k -> A] : k \in 0..n}

SkillAlphabet == {"a", "b", ",", ";", " "}
GenAlphabet == {"2", ".", "-", " ", "i", "n", "f", "N", "a"}

SKILLS_EXAMPLE == <<"P", "y", "t", "h", "o", "n", ";", " ", "S", "Q", "L", ",", " ", ",", " ", "R">>

SampleTexts ==
    { SKILLS_EXAMPLE, <<"L", "i", "c", "e", "n", "c", "i", "a", "t", "u", "r", "a", " ", "e", "n", " ", "C", "i", "e", "n", "c", "i", "a", " ", "d", "e", " ", "D", "a", "t", "o", "s">>, <<"M", "a", "e", "s", "t", "r", "í", "a">>, <<"N", "/", "A">>, <<"2", "0", "2", "1", ".", "0">>,
      <<"C", "u", "r", "s", "o", " ", "d", "e", " ", "A", "c", "t", "u", "a", "l", "i", "z", "a", "c", "i", "ó", "n">>, <<"D", "o", "c", "t", "o", "r", "a", "d", "o">>, <<"-", "I", "n", "f", "i", "n", "i", "t", "y", " ">>, <<"1", "9", "9", "9", "-", "0", "1", "-", "0", "2">> }

CellInputs ==
    {Blank}
        \cup {Text(s) : s \in StringsUpTo(SkillAlphabet, MaxSkillLen)}
        \cup {Text(s) : s \in StringsUpTo(GenAlphabet, MaxGenLen)}
        \cup {Text(s) : s \in SampleTexts}
        \cup {IntCell(n) : n \in {0 - 3, 0, 2021}}
        \cup {FloatCell(n, f) : n \in {0, 2021}, f \in {0, 7}}
        \cup {DateCell(19990102)}

Normalizers ==
    {"parse_skills", "normalize_academic_level", "safe_str", "normalize_generation", "to_iso"}

InitNormalizers ==
    /\ fn \in Normalizers
    /\ arg \in CellInputs
    /\ ret = NotCalled
    /\ pc = "read_members"
    /\ members_file = Missing
    /\ accounts_file = Missing
    /\ df_members = Missing
    /\ df_accounts = Missing
    /\ account_map = <<>>
    /\ idx = 0
    /\ records = <<>>
    /\ output = NoOutput
    /\ out_file = Untouched
    /\ opens = 0
    /\ error = "none"

CallParseSkills ==
    /\ fn = "parse_skills" /\ ret = NotCalled
    /\ ret' = parse_skills(arg)
    /\ UNCHANGED <<fn, arg>> /\ UNCHANGED pipeVars

CallNormalizeAcademicLevel ==
    /\ fn = "normalize_academic_level" /\ ret = NotCalled
    /\ ret' = normalize_academic_level(arg)
    /\ UNCHANGED <<fn, arg>> /\ UNCHANGED pipeVars

CallSafeStr ==
    /\ fn = "safe_str" /\ ret = NotCalled
    /\ ret' = safe_str(arg)
    /\ UNCHANGED <<fn, arg>> /\ UNCHANGED pipeVars

CallNormalizeGeneration ==
    /\ fn = "normalize_generation" /\ ret = NotCalled
    /\ ret' = normalize_generation(arg)
    /\ UNCHANGED <<fn, arg>> /\ UNCHANGED pipeVars

CallToIso ==
    /\ fn = "to_iso" /\ ret = NotCalled
    /\ ret' \in to_iso(arg)
    /\ UNCHANGED <<fn, arg>> /\ UNCHANGED pipeVars

NextNormalizers ==
    \/ CallParseSkills
    \/ CallNormalizeAcademicLevel
    \/ CallSafeStr
    \/ CallNormalizeGeneration
    \/ CallToIso

SpecNormalizers == InitNormalizers /\ [][NextNormalizers]_vars

----------------------------------------------------------------------------
(* Properties *)

\* records[i] is built from the i-th row that survived the exclusion filter
BuiltFrom(i) == df_members.rows[i]

\* word, given in lower case, occurs in text whatever the case of text
Mentions(text, word) ==
    \E i \in 0..(Len(text) - Len(word)) :
        \A j \in 1..Len(word) : LowerChar(text[i + j]) = word[j]

FlagPresent(row) == "Miembro" \in DOMAIN row /\ row["Miembro"].kind # "blank"

TipoText(row) ==
    IF "Tipo de registro" \in DOMAIN row /\ row["Tipo de registro"].kind # "blank"
    THEN StrOf(row["Tipo de registro"])
    ELSE <<>>

MemberTuple(r) ==
    /\ r.role = "member" /\ r.registrationType = "member"
    /\ r.verificationStatus = "approved" /\ r.lifecycleStatus = "active"

CollaboratorTuple(r) ==
    /\ r.role = "collaborator" /\ r.registrationType = "collaborator"
    /\ r.verificationStatus = "none" /\ r.lifecycleStatus = "collaborator"

\* C1: every record built carries the member tuple (member, member, approved,
\* active) when the membership flag cell of its row is present or the
\* registration type mentions "miembro" or "egresado" in any case, and the
\* collaborator tuple (collaborator, collaborator, none, collaborator)
\* otherwise; no record mixes the two tuples.
C1_Classification ==
    \A i \in 1..Len(records) :
        IF \/ FlagPresent(BuiltFrom(i))
           \/ Mentions(TipoText(BuiltFrom(i)), <<"m", "i", "e", "m", "b", "r", "o">>)
           \/ Mentions(TipoText(BuiltFrom(i)), <<"e", "g", "r", "e", "s", "a", "d", "o">>)
        THEN MemberTuple(records[i])
        ELSE CollaboratorTuple(records[i])

\* a finished run that classified one row as member on its registration type
\* alone, written in upper case, and another row as collaborator
C1_Witness ==
    /\ pc = "done"
    /\ \E i, j \in 1..Len(records) :
        /\ ~FlagPresent(BuiltFrom(i))
        /\ TipoText(BuiltFrom(i)) = <<"s", "o", "y", " ", "E", "G", "R", "E", "S", "A", "D", "O">>
        /\ MemberTuple(records[i])
        /\ CollaboratorTuple(records[j])

\* C2: no record of the members list, built or written, has an email whose
\* lower-case form is in the exclusion set, whatever the case and the
\* surrounding whitespace of the email cell.
C2_NoExcludedEmail ==
    /\ \A i \in 1..Len(records) : Lower(records[i].email.v) \notin EXCLUDED_EMAILS
    /\ \A i \in 1..Len(out_file.doc.members) :
            Lower(out_file.doc.members[i].email.v) \notin EXCLUDED_EMAILS

\* a written document with a record, from a member table holding a test
\* address in upper case between spaces
C2_Witness ==
    /\ out_file.state = "complete"
    /\ Len(out_file.doc.members) >= 1
    /\ \E i \in 1..Len(members_file.rows) : members_file.rows[i][COL_EMAIL] = Text(E_test1u)

RECURSIVE TallyRole(_, _)
TallyRole(recs, role) ==
    IF recs = <<>> THEN 0
    ELSE (IF Head(recs).role = role THEN 1 ELSE 0) + TallyRole(Tail(recs), role)

ConsistentCounts(doc) ==
    /\ doc.totalMembers = doc.memberCount + doc.collaboratorCount
    /\ doc.totalMembers = Len(doc.members)
    /\ doc.memberCount = TallyRole(doc.members, "member")
    /\ doc.collaboratorCount = TallyRole(doc.members, "collaborator")

\* C3: in the document the writer assembles and in the document on disk,
\* totalMembers = memberCount + collaboratorCount = the length of members,
\* the two counts being the numbers of records of each role.
C3_Counts ==
    /\ pc \in {"open", "dump", "print", "done"} => ConsistentCounts(output)
    /\ out_file.state = "complete" => ConsistentCounts(out_file.doc)

\* a written document that counts two members whose records are equal
C3_Witness ==
    /\ out_file.state = "complete"
    /\ out_file.doc.memberCount = 2
    /\ \E i, j \in 1..Len(out_file.doc.members) :
        i # j /\ out_file.doc.members[i] = out_file.doc.members[j]
              /\ out_file.doc.members[i].role = "member"

\* the rows of the member table on disk that the exclusion filter keeps, in order
RECURSIVE Survivors(_)
Survivors(rows) ==
    IF rows = <<>> THEN <<>>
    ELSE LET e == Head(rows)[COL_EMAIL]
         IN  IF e.kind = "text" /\ Lower(Strip(e.s)) \in EXCLUDED_EMAILS
             THEN Survivors(Tail(rows))
             ELSE <<Head(rows)>> \o Survivors(Tail(rows))

\* C4: a run never leaves a partial output file: a run that fails has neither
\* opened nor written the output file, and a run that ends well has opened it
\* once and left one complete document holding a record for every surviving
\* member row.
C4_NoPartialOutput ==
    /\ out_file.state # "partial"
    /\ pc = "failed" => out_file = Untouched /\ opens = 0 /\ error # "none"
    /\ pc = "done" =>
        /\ out_file = Complete(output) /\ opens = 1 /\ error = "none"
        /\ Len(out_file.doc.members) = Len(Survivors(members_file.rows))

\* a run that failed on the cell of a later row, after it had built a record
C4_Witness ==
    /\ pc = "failed"
    /\ Len(records) >= 1
    /\ out_file = Untouched

\* the last account row of key k that has an account number, 0 when there is none
LastWithNumber(rows, k) ==
    LET js == {j \in 1..Len(rows) :
                  rows[j][EMAIL_NORM] = k /\ NotNa(Get(rows[j], "Numero de cuenta"))}
    IN  IF js = {} THEN 0 ELSE CHOOSE j \in js : \A q \in js : q <= j

\* the text of the integer part of an account number cell
NumberText(cell) ==
    CASE cell.kind \in {"int", "float"} -> IntToStr(cell.n)
      [] OTHER -> IntToStr(DigitsToNat(Strip(cell.s)))

ExpectedAccount(rows, k) ==
    IF LastWithNumber(rows, k) = 0 THEN None
    ELSE Str(NumberText(rows[LastWithNumber(rows, k)]["Numero de cuenta"]))

\* C5: once the account loop has ended, the map has an entry exactly for the
\* normalized emails of the account rows with an account number, the entry
\* being the text of the integer account number of the last such row; every
\* record's numeroCuenta is the entry under the record's lower-case email,
\* and None when the map has none.
C5_AccountJoin ==
    pc \in {"build", "aggregate", "open", "dump", "print", "done"} =>
        /\ \A j \in 1..Len(df_accounts.rows) :
              LET k == df_accounts.rows[j][EMAIL_NORM]
              IN  IF LastWithNumber(df_accounts.rows, k) = 0
                  THEN k \notin DOMAIN account_map
                  ELSE k \in DOMAIN account_map
                          /\ account_map[k] = ExpectedAccount(df_accounts.rows, k)
        /\ \A k \in DOMAIN account_map : LastWithNumber(df_accounts.rows, k) # 0
        /\ \A i \in 1..Len(records) :
              records[i].numeroCuenta =
                  ExpectedAccount(df_accounts.rows, Text(Lower(records[i].email.v)))

\* a finished run whose account table gives one address twice, 12.0 then 7.5,
\* and whose record of that address carries "7"
C5_Witness ==
    /\ pc = "done"
    /\ Len(df_accounts.rows) = 2
    /\ df_accounts.rows[1][EMAIL_NORM] = df_accounts.rows[2][EMAIL_NORM]
    /\ df_accounts.rows[1]["Numero de cuenta"] = FloatCell(12, 0)
    /\ df_accounts.rows[2]["Numero de cuenta"] = FloatCell(7, 5)
    /\ \E i \in 1..Len(records) : records[i].numeroCuenta = Str(<<"7">>)

\* the row holds a rating of initiative k that is not blank nor whitespace only
Rated(row, k) ==
    /\ PriorityCol(k) \in DOMAIN row
    /\ row[PriorityCol(k)].kind # "blank"
    /\ \E j \in 1..Len(StrOf(row[PriorityCol(k)])) :
          StrOf(row[PriorityCol(k)])[j] \notin Whitespace

\* C6: the priorities map of every record has its keys among the seven
\* initiative keys, has a key exactly when the row holds a rating of that
\* initiative that is not blank nor whitespace only, and maps no key to None;
\* a row whose only rating is that of Seminarios gives the one key seminarios.
C6_SparsePriorities ==
    \A i \in 1..Len(records) :
        /\ DOMAIN records[i].priorities \subseteq PriorityKeys
        /\ \A k \in PriorityKeys :
              k \in DOMAIN records[i].priorities <=> Rated(BuiltFrom(i), k)
        /\ \A k \in DOMAIN records[i].priorities : records[i].priorities[k] # None
        /\ (\A k \in PriorityKeys : Rated(BuiltFrom(i), k) <=> k = "seminarios")
              => DOMAIN records[i].priorities = {"seminarios"}

\* a record with the one key seminarios, from a row whose Mentoría cell is a space
C6_Witness ==
    \E i \in 1..Len(records) :
        /\ DOMAIN records[i].priorities = {"seminarios"}
        /\ BuiltFrom(i)[PriorityCol("seminarios")] = Text(<<"A", "l", "t", "a">>)
        /\ BuiltFrom(i)[PriorityCol("mentoria")] = Text(<<" ">>)
        /\ BuiltFrom(i)[PriorityCol("newsletter")] = Blank

\* C7: the members list on disk has one record for each member row whose
\* normalized email is not in the exclusion set, in the order of the member
\* table: none dropped, none twice, none moved.
C7_OnePerSurvivor ==
    out_file.state = "complete" =>
        LET surv == Survivors(members_file.rows)
            recs == out_file.doc.members
        IN  /\ Len(recs) = Len(surv)
            /\ \A i \in 1..Len(recs) : recs[i].email.v = Strip(surv[i][COL_EMAIL].s)

\* a written document with two records of different emails, from a member
\* table that had an excluded row before them
C7_Witness ==
    /\ out_file.state = "complete"
    /\ Len(out_file.doc.members) = 2
    /\ out_file.doc.members[1].email # out_file.doc.members[2].email
    /\ Len(members_file.rows) = 3
    /\ members_file.rows[1][COL_EMAIL] = Text(E_test2u)

\* the text of a name cell, empty for a blank or whitespace-only cell
NameText(cell) == IF cell.kind = "blank" THEN <<>> ELSE Strip(StrOf(cell))

\* d is the part of email before its first "@", the whole of it when it has none
LocalPart(d, email) ==
    /\ \A j \in 1..Len(d) : d[j] # "@"
    /\ \/ d = email
       \/ /\ Len(d) < Len(email)
          /\ SubSeq(email, 1, Len(d)) = d
          /\ email[Len(d) + 1] = "@"

\* C8: displayName joins with a space those of the first name and the paternal
\* surname that are not absent; when both cells are blank or whitespace only
\* it is the part of the trimmed email before the first "@".
C8_DisplayName ==
    \A i \in 1..Len(records) :
        LET first == NameText(BuiltFrom(i)["Nombre(s)"])
            paterno == NameText(BuiltFrom(i)["Apellido Paterno"])
            d == records[i].displayName.v
        IN  /\ first # <<>> /\ paterno # <<>> => d = first \o <<" ">> \o paterno
            /\ first # <<>> /\ paterno = <<>> => d = first
            /\ first = <<>> /\ paterno # <<>> => d = paterno
            /\ first = <<>> /\ paterno = <<>> =>
                  LocalPart(d, Strip(BuiltFrom(i)[COL_EMAIL].s))
            /\ first = <<>> /\ paterno = <<>> /\ records[i].email.v = E_jdoe => d = <<"j", "d", "o", "e">>

\* a record named jdoe, from a row whose first name is a space and whose
\* paternal surname is blank
C8_Witness ==
    \E i \in 1..Len(records) :
        /\ records[i].displayName = Str(<<"j", "d", "o", "e">>)
        /\ records[i].email = Str(E_jdoe)
        /\ BuiltFrom(i)["Nombre(s)"] = Text(<<" ">>)
        /\ BuiltFrom(i)["Apellido Paterno"] = Blank

\* C9: each field normalizer returns a value for every cell value, blank,
\* number, text or date, and never raises.
C9_NormalizersTotal == ret # NotCalled => ret.ok

Separators == {",", ";"}

\* s without the characters of drop
RECURSIVE Without(_, _)
Without(s, drop) ==
    IF s = <<>> THEN <<>>
    ELSE IF Head(s) \in drop THEN Without(Tail(s), drop)
    ELSE <<Head(s)>> \o Without(Tail(s), drop)

RECURSIVE Flatten(_)
Flatten(l) == IF l = <<>> THEN <<>> ELSE Head(l) \o Flatten(Tail(l))

\* the positions of s that hold the first visible character after the start
\* of s or after a separator
TokenStarts(s) ==
    {i \in 1..Len(s) :
        /\ s[i] \notin Separators \cup Whitespace
        /\ \A j \in 1..(i - 1) :
              (\A m \in j..(i - 1) : s[m] \notin Separators) => s[j] \in Whitespace}

\* C10: parse_skills returns the empty list for a blank cell; otherwise its
\* tokens are the pieces of the text between commas and semicolons, trimmed,
\* the empty ones dropped, in the order of the text and with duplicates kept:
\* no token is empty, starts or ends with whitespace or holds a separator, and
\* "Python; SQL, , R" gives Python, SQL, R.
C10_ParseSkills ==
    fn = "parse_skills" /\ ret # NotCalled =>
        /\ ret.ok /\ ret.val.t = "list"
        /\ arg.kind = "blank" => ret.val.v = <<>>
        /\ arg.kind # "blank" =>
            LET tokens == ret.val.v
                text == StrOf(arg)
            IN  /\ \A i \in 1..Len(tokens) :
                      /\ tokens[i] # <<>>
                      /\ tokens[i][1] \notin Whitespace
                      /\ tokens[i][Len(tokens[i])] \notin Whitespace
                      /\ \A j \in 1..Len(tokens[i]) : tokens[i][j] \notin Separators
                      /\ Contains(text, tokens[i])
                /\ Len(tokens) = Cardinality(TokenStarts(text))
                /\ Without(Flatten(tokens), Whitespace)
                      = Without(text, Separators \cup Whitespace)
        /\ arg = Text(SKILLS_EXAMPLE) => ret.val.v = <<<<"P", "y", "t", "h", "o", "n">>, <<"S", "Q", "L">>, <<"R">>>>

\* the call on "Python; SQL, , R" has returned the three tokens
C10_Witness ==
    /\ fn = "parse_skills"
    /\ arg = Text(SKILLS_EXAMPLE)
    /\ ret = Return(List(<<<<"P", "y", "t", "h", "o", "n">>, <<"S", "Q", "L">>, <<"R">>>>))

====
